---- MODULE Spec2Model ----
(***************************************************************************)
(* Wild Whatcom dashboard: the CSV -> JSON pipeline (scripts/process_data  *)
(* as documented in the implementation plan) and the React pages that      *)
(* fetch the seven JSON records it writes.                                 *)
(*                                                                         *)
(* Floats are modelled as exact rationals [n, d] (d > 0, reduced), strings *)
(* of source cells as sequences of one-character strings.                  *)
(***************************************************************************)
EXTENDS Integers, Sequences, FiniteSets, TLC

VARIABLES
    sources,    \* the CSV files of DATA_DIR: table name -> grid or Missing
    files,      \* the JSON files of OUTPUT_DIR: file name -> content or Absent
    pc,         \* position of main(): "idle", a step of MainSteps, "done", "failed"
    runNo,      \* number of pipeline runs started so far
    input,      \* the sources as they were when the current run started
    mem,        \* locals of main(): the loaded tables and the derived records
    raised,     \* exceptions that escaped main() in the current run
    written,    \* names of the files the current run has written
    lastDone,   \* sources and files as the latest completed run left them
    page,       \* the mounted page component, or "none"
    ppc,        \* position of the page's loadData
    resp,       \* bodies of the settled fetches: file name -> body
    data,       \* the page's data state
    loading,    \* the page's loading state
    error       \* the page's error state

vars == <<sources, files, pc, runNo, input, mem, raised, written, lastDone,
          page, ppc, resp, data, loading, error>>

pipeVars == <<sources, files, pc, runNo, input, mem, raised, written, lastDone>>
pageVars == <<page, ppc, resp, data, loading, error>>

----------------------------------------------------------------------------
(* Bounds *)

MaxRuns == 2
MaxReserve == 6
MaxExpense == 2
MaxCellLen == 3

----------------------------------------------------------------------------
(* Exact arithmetic standing in for Python / JavaScript floats *)

Abs(x) == IF x < 0 THEN -x ELSE x

RECURSIVE Gcd(_, _)
Gcd(a, b) == IF b = 0 THEN a ELSE Gcd(b, a % b)

Rat(n, d) ==
    LET s == IF d < 0 THEN -1 ELSE 1
        g == Gcd(Abs(n), Abs(d))
    IN  [n |-> (s * n) \div g, d |-> (s * d) \div g]

R(i) == [n |-> i, d |-> 1]

RAdd(x, y) == Rat(x.n * y.d + y.n * x.d, x.d * y.d)
\* the operands of the subtraction swapped
RSubFlipped(x, y) == Rat(y.n * x.d - x.n * y.d, x.d * y.d)

RSub(x, y) == Rat(x.n * y.d - y.n * x.d, x.d * y.d)
RMul(x, y) == Rat(x.n * y.n, x.d * y.d)
RDiv(x, y) == Rat(x.n * y.d, x.d * y.n)
RGe(x, y) == x.n * y.d >= y.n * x.d
RLt(x, y) == x.n * y.d < y.n * x.d
RGt(x, y) == x.n * y.d > y.n * x.d

RECURSIVE RSum(_)
RSum(s) == IF s = <<>> THEN R(0) ELSE RAdd(Head(s), RSum(Tail(s)))

----------------------------------------------------------------------------
(* Raw cells of a source table *)

NaN == [k |-> "nan"]
Num(v) == [k |-> "num", v |-> v]
Str(s) == [k |-> "str", s |-> s]

Ok(v) == [ok |-> TRUE, v |-> v]
Raise(type, table, what) == [ok |-> FALSE, type |-> type, table |-> table, what |-> what]

Digits == <<"0", "1", "2", "3", "4", "5", "6", "7", "8", "9">>
IsDigit(c) == \E i \in 1..10 : Digits[i] = c
DigitVal(c) == (CHOOSE i \in 1..10 : Digits[i] = c) - 1

RECURSIVE Pow10(_)
Pow10(k) == IF k = 0 THEN 1 ELSE 10 * Pow10(k - 1)

\* value of the first k digits of s read as a decimal numeral
RECURSIVE DigitsVal(_, _)
DigitsVal(s, k) == IF k = 0 THEN 0 ELSE 10 * DigitsVal(s, k - 1) + DigitVal(s[k])

\* str.strip(): leading and trailing blanks removed
Strip(s) ==
    LET inked == {i \in 1..Len(s) : s[i] # " "}
    IN  IF inked = {} THEN <<>>
        ELSE SubSeq(s, CHOOSE i \in inked : \A j \in inked : i <= j,
                       CHOOSE i \in inked : \A j \in inked : i >= j)

\* the result of str.replace dropped: the string is left as it was
ReplaceDiscarded(s, c) == s

Replace(s, c) == SelectSeq(s, LAMBDA x : x # c)

\* the numeral is digits with at most one decimal point and at least one digit
WellFormed(body) ==
    /\ \A i \in 1..Len(body) : IsDigit(body[i]) \/ body[i] = "."
    /\ Cardinality({i \in 1..Len(body) : body[i] = "."}) <= 1
    /\ \E i \in 1..Len(body) : IsDigit(body[i])

\* value of a well-formed unsigned numeral
Magnitude(body) ==
    LET dots == {i \in 1..Len(body) : body[i] = "."}
        digs == SelectSeq(body, IsDigit)
    IN  Rat(DigitsVal(digs, Len(digs)),
            Pow10(IF dots = {} THEN 0 ELSE Len(body) - (CHOOSE i \in dots : TRUE)))

\* Python float(str): optional sign, digits with at most one decimal point,
\* at least one digit; anything else raises ValueError.
ParseFloat(str) ==
    LET s == Strip(str)
        signed == s # <<>> /\ Head(s) \in {"-", "+"}
        body == IF signed THEN Tail(s) ELSE s
    IN  IF ~WellFormed(body) THEN Raise("ValueError", "", str)
        ELSE Ok(IF signed /\ Head(s) = "-" THEN RSub(R(0), Magnitude(body))
                ELSE Magnitude(body))

clean_currency(value) ==
    IF value.k = "nan" THEN Ok(R(0))
    ELSE IF value.k = "num" THEN Ok(R(value.v))
    ELSE IF value.k = "str" THEN
        IF (value.s # <<>> /\ Head(value.s) = "#") \/ value.s = <<>> THEN Ok(R(0))
        ELSE LET cleaned == Strip(Replace(Replace(value.s, "$"), ","))
             IN  IF cleaned # <<>> THEN ParseFloat(cleaned) ELSE Ok(R(0))
    ELSE Ok(R(0))

\* the guard hands back the numerator instead of 0
safe_divide_passthrough(numerator, denominator) ==
    IF denominator = R(0) THEN numerator
    ELSE RDiv(numerator, denominator)

\* the guard hands back the sentinel -1 instead of 0
safe_divide_sentinel(numerator, denominator) ==
    IF denominator = R(0) THEN R(-1)
    ELSE RDiv(numerator, denominator)

safe_divide(numerator, denominator) ==
    IF denominator = R(0) THEN R(0)
    ELSE RDiv(numerator, denominator)

----------------------------------------------------------------------------
(* Source tables: a grid of raw cells (header row excluded), or Missing *)

Missing == [rows |-> -1, cols |-> -1, cell |-> <<>>]

Grid(rows, cols, cell) == [rows |-> rows, cols |-> cols, cell |-> cell]

\* df.iloc[r, c]: IndexError outside the grid, NaN for an empty cell
iloc(df, r, c) ==
    IF r >= df.rows \/ c >= df.cols THEN Raise("IndexError", "", <<r, c>>)
    ELSE IF <<r, c>> \in DOMAIN df.cell THEN Ok(df.cell[<<r, c>>])
    ELSE Ok(NaN)

\* pd.read_csv(file_path)
read_csv(name) ==
    IF sources[name] = Missing THEN Raise("FileNotFoundError", name, name)
    ELSE Ok(sources[name])

\* clean_currency(df.iloc[r, c]) with the exception of either call
Field(df, r, c) ==
    LET raw == iloc(df, r, c)
    IN  IF raw.ok THEN clean_currency(raw.v) ELSE raw

\* The first exception among the results res, or Ok of the sequence of values
FirstOf(res) ==
    LET bad == {i \in 1..Len(res) : ~res[i].ok}
    IN  IF bad = {} THEN Ok([i \in 1..Len(res) |-> res[i].v])
        ELSE res[CHOOSE j \in bad : \A k \in bad : j <= k]

\* The first exception raised while evaluating the fields at coords, in
\* evaluation order, or Ok of the sequence of values
FirstRaise(df, coords) ==
    FirstOf([i \in 1..Len(coords) |-> Field(df, coords[i][1], coords[i][2])])

InTable(res, name) ==
    IF res.ok THEN res ELSE [res EXCEPT !.table = name]

years == <<"FY19", "FY20", "FY21", "FY22", "FY23", "FY24", "FY25", "FY26", "FY27", "FY28", "FY29">>

FirstYearCol == 2
LastYearCol == 12
ProgramRevenueRow == 17
IndividualDonorsRow == 18

\* range(2, 12): the last year column left out
YearColsExclusive == [i \in 1..(LastYearCol - FirstYearCol) |-> FirstYearCol + i - 1]

\* range(2, 13)
YearCols == [i \in 1..(LastYearCol - FirstYearCol + 1) |-> FirstYearCol + i - 1]

\* per column: program_revenue first, then individual_donors
SummaryCoords ==
    [i \in 1..(2 * Len(YearCols)) |->
        <<IF i % 2 = 1 THEN ProgramRevenueRow ELSE IndividualDonorsRow,
          YearCols[(i + 1) \div 2]>>]

load_summary_data ==
    LET df == read_csv("summary")
        n == Len(YearCols)
        vals == FirstRaise(df.v, SummaryCoords)
    IN  IF ~df.ok THEN df
        ELSE IF ~vals.ok THEN InTable(vals, "summary")
        ELSE Ok([income_trends |->
                    [years |-> years,
                     program_revenue |-> [i \in 1..n |-> vals.v[2 * i - 1]],
                     individual_donors |-> [i \in 1..n |-> vals.v[2 * i]]]])

\* FY26 Annual CSV: row of each logical field; Column 2: Budget, Column 3: Actual
RevenueKeys == <<"contributions", "grants", "earned_revenue", "fundraising_events",
                 "sponsorships", "other", "total">>
ExpenseKeys == <<"salaries_wages", "payroll_taxes", "benefits", "total">>
ReserveKeys == <<"current_reserves", "monthly_operating_expense">>

FirstRevenueRow == 6
FirstExpenseRow == 16
FirstReserveRow == 61
BudgetCol == 2
ActualCol == 3

KeyIndex(keys, k) == CHOOSE i \in 1..Len(keys) : keys[i] = k
KeySet(keys) == {keys[i] : i \in 1..Len(keys)}

\* budgeted then actual of every row first..first+count-1
BudgetActualCoords(first, count) ==
    [i \in 1..(2 * count) |->
        <<first + ((i - 1) \div 2), IF i % 2 = 1 THEN BudgetCol ELSE ActualCol>>]

CategoryRecords(keys, vals, offset) ==
    [k \in KeySet(keys) |->
        [budgeted |-> vals[offset + 2 * KeyIndex(keys, k) - 1],
         actual |-> vals[offset + 2 * KeyIndex(keys, k)]]]

AnnualCoords ==
    BudgetActualCoords(FirstRevenueRow, Len(RevenueKeys))
    \o BudgetActualCoords(FirstExpenseRow, Len(ExpenseKeys))
    \o [i \in 1..Len(ReserveKeys) |-> <<FirstReserveRow + i - 1, ActualCol>>]

load_fy26_annual_data ==
    LET df == read_csv("annual")
        nr == Len(RevenueKeys)
        ne == Len(ExpenseKeys)
        vals == FirstRaise(df.v, AnnualCoords)
        current == vals.v[2 * nr + 2 * ne + 1]
        monthly == vals.v[2 * nr + 2 * ne + 2]
    IN  IF ~df.ok THEN df
        ELSE IF ~vals.ok THEN InTable(vals, "annual")
        ELSE Ok([revenue |-> CategoryRecords(RevenueKeys, vals.v, 0),
                 expenses |-> CategoryRecords(ExpenseKeys, vals.v, 2 * nr),
                 reserves |-> [current_reserves |-> current,
                               monthly_operating_expense |-> monthly,
                               months_reserve |-> safe_divide(current, monthly)]])

\* Program Data CSV: Explorers Club, Community, School, Nature Preschool, Camps
ProgramKeys == <<"explorers_club", "community", "school", "nature_preschool", "camps">>
ProgramRows == <<2, 3, 4, 5, 7>>
ScholarshipCol == 4

\* budgeted, actual, scholarships of every program row
ProgramCoords ==
    [i \in 1..(3 * Len(ProgramKeys)) |->
        <<ProgramRows[((i - 1) \div 3) + 1],
          <<BudgetCol, ActualCol, ScholarshipCol>>[((i - 1) % 3) + 1]>>]

load_program_data ==
    LET df == read_csv("program")
        vals == FirstRaise(df.v, ProgramCoords)
    IN  IF ~df.ok THEN df
        ELSE IF ~vals.ok THEN InTable(vals, "program")
        ELSE Ok([k \in KeySet(ProgramKeys) |->
                    LET b == 3 * (KeyIndex(ProgramKeys, k) - 1)
                    IN  [budgeted |-> vals.v[b + 1],
                         actual |-> vals.v[b + 2],
                         scholarships |-> vals.v[b + 3],
                         percent_of_goal |-> safe_divide(vals.v[b + 2], vals.v[b + 1])]])

\* Monthly Cashflow CSV: Columns 3-14 are Sept-Aug
months == <<"Sep", "Oct", "Nov", "Dec", "Jan", "Feb", "Mar", "Apr", "May", "Jun", "Jul", "Aug">>
FirstMonthCol == 3
\* total revenue, total expenses, net income, reserves, months in reserve
CashflowRows == <<13, 55, 57, 66, 67>>

\* one row after the other, Sept to Aug within a row
CashflowCoords ==
    [i \in 1..(Len(CashflowRows) * Len(months)) |->
        <<CashflowRows[((i - 1) \div Len(months)) + 1],
          FirstMonthCol + ((i - 1) % Len(months))>>]

load_monthly_cashflow ==
    LET df == read_csv("cashflow")
        nm == Len(months)
        vals == FirstRaise(df.v, CashflowCoords)
        series(j) == [i \in 1..nm |-> vals.v[(j - 1) * nm + i]]
    IN  IF ~df.ok THEN df
        ELSE IF ~vals.ok THEN InTable(vals, "cashflow")
        ELSE Ok([revenue_by_month |-> [months |-> months, total |-> series(1)],
                 expense_by_month |-> [months |-> months, total |-> series(2)],
                 net_income_by_month |-> [months |-> months,
                                          net_income |-> series(3),
                                          reserves |-> series(4),
                                          months_in_reserve |-> series(5)]])

----------------------------------------------------------------------------
(* Derivations of main() *)

labels == <<"Contributions", "Grants", "Earned Revenue", "Events", "Sponsorships",
            "Other", "Organization", "Payroll", "Operations">>

HubIndex == 6
PayrollIndex == 7

\* the position of Operations, the last label, counted from 1
OperationsIndexOneBased == Len(labels)

OperationsIndex == 8

\* the revenue edges carry the budgeted amounts
calculate_sankey_data_budgeted(annual_data) ==
    LET revenue == annual_data.revenue
        expenses == annual_data.expenses
        payroll_total == RAdd(RAdd(expenses["salaries_wages"].actual,
                                   expenses["payroll_taxes"].actual),
                              expenses["benefits"].actual)
        operations_total == RSub(expenses["total"].actual, payroll_total)
    IN  [labels |-> labels,
         sources |-> <<0, 1, 2, 3, 4, 5>> \o <<HubIndex, HubIndex>>,
         targets |-> <<HubIndex, HubIndex, HubIndex, HubIndex, HubIndex, HubIndex>>
                     \o <<PayrollIndex, OperationsIndex>>,
         values |-> <<revenue["contributions"].budgeted,
                      revenue["grants"].budgeted,
                      revenue["earned_revenue"].budgeted,
                      revenue["fundraising_events"].budgeted,
                      revenue["sponsorships"].budgeted,
                      revenue["other"].budgeted>>
                    \o <<payroll_total, operations_total>>]

calculate_sankey_data(annual_data) ==
    LET revenue == annual_data.revenue
        expenses == annual_data.expenses
        payroll_total == RAdd(RAdd(expenses["salaries_wages"].actual,
                                   expenses["payroll_taxes"].actual),
                              expenses["benefits"].actual)
        operations_total == RSub(expenses["total"].actual, payroll_total)
    IN  [labels |-> labels,
         sources |-> <<0, 1, 2, 3, 4, 5>> \o <<HubIndex, HubIndex>>,
         targets |-> <<HubIndex, HubIndex, HubIndex, HubIndex, HubIndex, HubIndex>>
                     \o <<PayrollIndex, OperationsIndex>>,
         values |-> <<revenue["contributions"].actual,
                      revenue["grants"].actual,
                      revenue["earned_revenue"].actual,
                      revenue["fundraising_events"].actual,
                      revenue["sponsorships"].actual,
                      revenue["other"].actual>>
                    \o <<payroll_total, operations_total>>]

\* strict comparisons: the boundary values fall into the lower tier
reserve_health_strict(months_in_reserve) ==
    IF RGt(months_in_reserve, R(3)) THEN "good"
    ELSE IF RGt(months_in_reserve, R(2)) THEN "warning"
    ELSE "critical"

reserve_health(months_in_reserve) ==
    IF RGe(months_in_reserve, R(3)) THEN "good"
    ELSE IF RGe(months_in_reserve, R(2)) THEN "warning"
    ELSE "critical"

variance_pct(actual, budgeted) ==
    RMul(safe_divide(RSub(actual, budgeted), budgeted), R(100))

reserve_targets(monthly_operating_expense) ==
    [one_month |-> monthly_operating_expense,
     three_months |-> RMul(R(3), monthly_operating_expense),
     six_months |-> RMul(R(6), monthly_operating_expense)]

calculate_executive_summary(annual_data) ==
    [current_reserves |-> annual_data.reserves.current_reserves,
     months_in_reserve |-> annual_data.reserves.months_reserve,
     reserve_health |-> reserve_health(annual_data.reserves.months_reserve),
     ytd_revenue |-> annual_data.revenue["total"].actual,
     ytd_revenue_budget |-> annual_data.revenue["total"].budgeted,
     ytd_revenue_variance |-> variance_pct(annual_data.revenue["total"].actual,
                                           annual_data.revenue["total"].budgeted),
     ytd_expenses |-> annual_data.expenses["total"].actual,
     ytd_expenses_budget |-> annual_data.expenses["total"].budgeted,
     ytd_expenses_variance |-> variance_pct(annual_data.expenses["total"].actual,
                                            annual_data.expenses["total"].budgeted),
     net_income |-> RSub(annual_data.revenue["total"].actual,
                         annual_data.expenses["total"].actual),
     reserve_targets |-> reserve_targets(annual_data.reserves.monthly_operating_expense)]

----------------------------------------------------------------------------
(* main(): the steps in program order *)

None == [ok |-> FALSE]

\* each record saved as soon as it is at hand
MainStepsSaveEarly == <<"load_summary", "save_historical_trends", "load_annual",
                        "load_program", "load_cashflow", "sankey", "executive",
                        "save_executive_summary", "save_revenue_data",
                        "save_expense_data", "save_program_data", "save_cashflow_data",
                        "save_sankey_data">>

\* the sankey derivation moved up to right after the table it reads
MainStepsSankeyEarly == <<"load_summary", "load_annual", "sankey", "load_program",
                          "load_cashflow", "executive",
                          "save_executive_summary", "save_historical_trends",
                          "save_revenue_data", "save_expense_data", "save_program_data",
                          "save_cashflow_data", "save_sankey_data">>

MainSteps == <<"load_summary", "load_annual", "load_program", "load_cashflow",
               "sankey", "executive",
               "save_executive_summary", "save_historical_trends", "save_revenue_data",
               "save_expense_data", "save_program_data", "save_cashflow_data",
               "save_sankey_data">>

FileNames == {"executive_summary", "historical_trends", "revenue_data", "expense_data",
              "program_data", "cashflow_data", "sankey_data"}

TableNames == {"summary", "annual", "program", "cashflow"}

LoadSteps == {"load_summary", "load_annual", "load_program", "load_cashflow"}
DeriveSteps == {"sankey", "executive"}
SaveSteps == {"save_executive_summary", "save_historical_trends", "save_revenue_data",
              "save_expense_data", "save_program_data", "save_cashflow_data",
              "save_sankey_data"}

StepIndex(step) == CHOOSE i \in 1..Len(MainSteps) : MainSteps[i] = step

\* the statement after step, "done" after the last one
NextPc(step) ==
    IF StepIndex(step) = Len(MainSteps) THEN "done" ELSE MainSteps[StepIndex(step) + 1]

\* the exception swallowed by a try/except around the statement
OnRaiseContinue(step) == NextPc(step)

\* an exception is not caught in main(): the run ends at the raising statement
OnRaise(step) == "failed"

\* open(path, 'a'): the document is appended to what the file held
WriteJsonAppend(old, record) == Append(old, record)

\* open(path, 'w') + json.dump: the file holds exactly the dumped document
WriteJson(old, record) == <<record>>

Absent == [present |-> FALSE, run |-> 0, body |-> <<>>]

EmptyMem == [summary_data |-> None, annual_data |-> None, program_data |-> None,
             cashflow_data |-> None, sankey_data |-> None, executive_summary |-> None]

Idle == pc \in {"idle", "done", "failed"}
Ended == pc \in {"done", "failed"}
Running == ~Idle

StartRun ==
    /\ Idle
    /\ runNo < MaxRuns
    /\ runNo' = runNo + 1
    /\ pc' = MainSteps[1]
    /\ mem' = EmptyMem
    /\ raised' = <<>>
    /\ written' = {}
    /\ input' = sources
    /\ lastDone' = IF pc = "done" THEN [valid |-> TRUE, sources |-> input, files |-> files]
                   ELSE lastDone
    /\ UNCHANGED <<sources, files>>
    /\ UNCHANGED pageVars

\* one load statement of main(): the result is bound, or the exception escapes
Load(step, result, target) ==
    /\ pc = step
    /\ IF result.ok
       THEN /\ mem' = [mem EXCEPT ![target] = result]
            /\ pc' = NextPc(step)
            /\ raised' = raised
       ELSE /\ mem' = mem
            /\ pc' = OnRaise(step)
            /\ raised' = Append(raised, result)
    /\ UNCHANGED <<sources, files, runNo, input, written, lastDone>>
    /\ UNCHANGED pageVars

LoadSummary == Load("load_summary", load_summary_data, "summary_data")
LoadAnnual == Load("load_annual", load_fy26_annual_data, "annual_data")
LoadProgram == Load("load_program", load_program_data, "program_data")
LoadCashflow == Load("load_cashflow", load_monthly_cashflow, "cashflow_data")

\* a derivation statement of main(): an unbound argument raises
Derive(step, arg, result, target) ==
    /\ pc = step
    /\ IF arg.ok
       THEN /\ mem' = [mem EXCEPT ![target] = Ok(result)]
            /\ pc' = NextPc(step)
            /\ raised' = raised
       ELSE /\ mem' = mem
            /\ pc' = OnRaise(step)
            /\ raised' = Append(raised, Raise("TypeError", "", step))
    /\ UNCHANGED <<sources, files, runNo, input, written, lastDone>>
    /\ UNCHANGED pageVars

CalcSankey ==
    Derive("sankey", mem.annual_data,
           calculate_sankey_data(mem.annual_data.v), "sankey_data")

CalcExecutive ==
    Derive("executive", mem.annual_data,
           calculate_executive_summary(mem.annual_data.v), "executive_summary")

\* the record each output file is dumped from
RecordOf(file) ==
    CASE file = "executive_summary" -> mem.executive_summary
      [] file = "historical_trends" -> mem.summary_data
      [] file = "revenue_data" ->
            IF mem.annual_data.ok THEN Ok(mem.annual_data.v.revenue) ELSE None
      [] file = "expense_data" ->
            IF mem.annual_data.ok THEN Ok(mem.annual_data.v.expenses) ELSE None
      [] file = "program_data" -> mem.program_data
      [] file = "cashflow_data" -> mem.cashflow_data
      [] file = "sankey_data" -> mem.sankey_data

SaveStepOf(file) ==
    CASE file = "executive_summary" -> "save_executive_summary"
      [] file = "historical_trends" -> "save_historical_trends"
      [] file = "revenue_data" -> "save_revenue_data"
      [] file = "expense_data" -> "save_expense_data"
      [] file = "program_data" -> "save_program_data"
      [] file = "cashflow_data" -> "save_cashflow_data"
      [] file = "sankey_data" -> "save_sankey_data"

Save(file) ==
    /\ pc = SaveStepOf(file)
    /\ IF RecordOf(file).ok
       THEN /\ files' = [files EXCEPT ![file] =
                            [present |-> TRUE, run |-> runNo,
                             body |-> WriteJson(files[file].body, RecordOf(file).v)]]
            /\ written' = written \cup {file}
            /\ pc' = NextPc(SaveStepOf(file))
            /\ raised' = raised
       ELSE /\ files' = files
            /\ written' = written
            /\ pc' = OnRaise(SaveStepOf(file))
            /\ raised' = Append(raised, Raise("NameError", "", file))
    /\ UNCHANGED <<sources, runNo, input, mem, lastDone>>
    /\ UNCHANGED pageVars

SaveFile == \E file \in FileNames : Save(file)

RunStep ==
    \/ LoadSummary
    \/ LoadAnnual
    \/ LoadProgram
    \/ LoadCashflow
    \/ CalcSankey
    \/ CalcExecutive
    \/ SaveFile

----------------------------------------------------------------------------
(* Page components: useState + the loadData effect run on mount *)

Pages == {"ExecutiveSummary", "CashFlowPage", "RevenuePage", "ExpensePage", "ProgramsPage"}

\* the files of the Promise.all, in order
PageFiles(p) ==
    CASE p = "ExecutiveSummary" -> <<"executive_summary", "sankey_data", "historical_trends">>
      [] p = "CashFlowPage" -> <<"cashflow_data", "executive_summary", "historical_trends">>
      [] p = "RevenuePage" -> <<"revenue_data", "historical_trends">>
      [] p = "ExpensePage" -> <<"expense_data", "historical_trends">>
      [] p = "ProgramsPage" -> <<"program_data", "historical_trends">>

\* the keys of the data state, aligned with PageFiles
PageKeys(p) ==
    CASE p = "ExecutiveSummary" -> <<"executive", "sankey", "trends">>
      [] p = "CashFlowPage" -> <<"cashflow", "executive", "trends">>
      [] p = "RevenuePage" -> <<"revenue", "trends">>
      [] p = "ExpensePage" -> <<"expenses", "trends">>
      [] p = "ProgramsPage" -> <<"programs", "trends">>

NullData(p) == [k \in KeySet(PageKeys(p)) |-> None]
NoError == [set |-> FALSE, message |-> ""]

\* res.json(): the body parses iff the file existed and holds one JSON document
JsonOk(body) == body.present /\ Len(body.body) = 1

Mount ==
    /\ page = "none"
    /\ \E p \in Pages :
        /\ page' = p
        /\ data' = NullData(p)
    /\ ppc' = "fetching"
    /\ resp' = <<>>
    /\ loading' = TRUE
    /\ error' = NoError
    /\ UNCHANGED pipeVars

\* one fetch of the Promise.all is answered with the file as it is now
FetchSettle ==
    /\ ppc = "fetching"
    /\ \E f \in KeySet(PageFiles(page)) \ DOMAIN resp :
        resp' = resp @@ (f :> files[f])
    /\ UNCHANGED <<page, ppc, data, loading, error>>
    /\ UNCHANGED pipeVars

\* a catch block that swallows the failure: no setError
FetchRejectSilent ==
    /\ ppc = "fetching"
    /\ DOMAIN resp # KeySet(PageFiles(page))
    /\ ppc' = "setLoading"
    /\ UNCHANGED <<page, resp, data, loading, error>>
    /\ UNCHANGED pipeVars

\* a fetch rejects (network error): Promise.all rejects, the catch block runs
FetchReject ==
    /\ ppc = "fetching"
    /\ DOMAIN resp # KeySet(PageFiles(page))
    /\ error' = [set |-> TRUE, message |-> "Failed to fetch"]
    /\ ppc' = "setLoading"
    /\ UNCHANGED <<page, resp, data, loading>>
    /\ UNCHANGED pipeVars

\* a loadData that stores each record as soon as it has parsed
ParsePartial ==
    /\ ppc = "fetching"
    /\ DOMAIN resp = KeySet(PageFiles(page))
    /\ LET fs == PageFiles(page)
           ks == PageKeys(page)
       IN  /\ data' = [k \in KeySet(ks) |->
                           LET b == resp[fs[KeyIndex(ks, k)]]
                           IN  IF JsonOk(b) THEN [ok |-> TRUE, v |-> b.body[1], run |-> b.run]
                               ELSE None]
           /\ error' = IF \A i \in 1..Len(fs) : JsonOk(resp[fs[i]]) THEN error
                        ELSE [set |-> TRUE, message |-> "Unexpected token"]
    /\ ppc' = "setLoading"
    /\ UNCHANGED <<page, resp, loading>>
    /\ UNCHANGED pipeVars

\* all fetches settled: the bodies are parsed in order; setData or setError
Parse ==
    /\ ppc = "fetching"
    /\ DOMAIN resp = KeySet(PageFiles(page))
    /\ LET fs == PageFiles(page)
           ks == PageKeys(page)
       IN  IF \A i \in 1..Len(fs) : JsonOk(resp[fs[i]])
           THEN /\ data' = [k \in KeySet(ks) |->
                               LET b == resp[fs[KeyIndex(ks, k)]]
                               IN  [ok |-> TRUE, v |-> b.body[1], run |-> b.run]]
                /\ error' = error
           ELSE /\ data' = data
                /\ error' = [set |-> TRUE, message |-> "Unexpected token"]
    /\ ppc' = "setLoading"
    /\ UNCHANGED <<page, resp, loading>>
    /\ UNCHANGED pipeVars

\* a loadData that ends without calling setLoading(false)
SetLoadingSkipped ==
    /\ ppc = "setLoading"
    /\ ppc' = "settled"
    /\ UNCHANGED <<page, resp, data, loading, error>>
    /\ UNCHANGED pipeVars

\* setLoading(false), the last statement of the try and of the catch block
SetLoading ==
    /\ ppc = "setLoading"
    /\ loading' = FALSE
    /\ ppc' = "settled"
    /\ UNCHANGED <<page, resp, data, error>>
    /\ UNCHANGED pipeVars

PageStep ==
    \/ Mount
    \/ FetchSettle
    \/ FetchReject
    \/ Parse
    \/ SetLoading

----------------------------------------------------------------------------
(* Source tables the runs are given *)

SummaryGrid(first) ==
    Grid(23, 13,
         [rc \in {ProgramRevenueRow, IndividualDonorsRow} \X (FirstYearCol..LastYearCol) |->
             IF rc = <<ProgramRevenueRow, FirstYearCol>> THEN first ELSE Num(rc[1] + rc[2])])

\* a summary table exported without its last year column
NarrowSummaryGrid ==
    Grid(23, LastYearCol,
         [rc \in {ProgramRevenueRow, IndividualDonorsRow} \X (FirstYearCol..(LastYearCol - 1)) |->
             Num(rc[1] + rc[2])])

AnnualGrid(p) ==
    Grid(67, 6,
         (<<FirstRevenueRow, ActualCol>> :> Num(p.contributions))
         @@ (<<FirstRevenueRow + 1, ActualCol>> :> Num(p.grants))
         @@ (<<FirstRevenueRow + 1, BudgetCol>> :> Num(p.grantsBudget))
         @@ (<<FirstRevenueRow + 6, ActualCol>> :> Num(p.revenueTotal))
         @@ (<<FirstRevenueRow + 6, BudgetCol>> :> Num(p.revenueBudget))
         @@ (<<FirstExpenseRow, ActualCol>> :> Num(p.salaries))
         @@ (<<FirstExpenseRow + 1, ActualCol>> :> Num(5))
         @@ (<<FirstExpenseRow + 2, ActualCol>> :> Num(5))
         @@ (<<FirstExpenseRow + 3, ActualCol>> :> Num(p.expenseTotal))
         @@ (<<FirstExpenseRow + 3, BudgetCol>> :> Num(p.expenseBudget))
         @@ (<<FirstReserveRow, ActualCol>> :> Num(p.reserves))
         @@ (<<FirstReserveRow + 1, ActualCol>> :> Num(p.monthly)))

ProgramGrid ==
    Grid(8, 5,
         [rc \in {ProgramRows[i] : i \in 1..Len(ProgramRows)}
                 \X {BudgetCol, ActualCol, ScholarshipCol} |-> Num(rc[1] * rc[2])])

\* a program table with a program budgeted at 0 and a program that earned 0
ZeroBudgetProgramGrid ==
    [ProgramGrid EXCEPT !.cell = (<<ProgramRows[1], BudgetCol>> :> Num(0))
                                 @@ (<<ProgramRows[2], ActualCol>> :> Num(0))
                                 @@ ProgramGrid.cell]

CashflowGrid ==
    Grid(68, 15,
         [rc \in {CashflowRows[i] : i \in 1..Len(CashflowRows)}
                 \X (FirstMonthCol..(FirstMonthCol + Len(months) - 1)) |-> Num(rc[1] + rc[2])])

AnnualA ==
    [contributions |-> 20, grants |-> 50, grantsBudget |-> 45, revenueTotal |-> 70,
     revenueBudget |-> 100, salaries |-> 30, expenseTotal |-> 70, expenseBudget |-> 100,
     reserves |-> 6, monthly |-> 2]

AnnualB ==
    [contributions |-> 0, grants |-> 50, grantsBudget |-> 45, revenueTotal |-> 110,
     revenueBudget |-> 100, salaries |-> 30, expenseTotal |-> 60, expenseBudget |-> 0,
     reserves |-> 5, monthly |-> 2]

Full(summary, annual) ==
    [summary |-> summary, annual |-> annual, program |-> ProgramGrid, cashflow |-> CashflowGrid]

\* "$1,250.50", "#REF!", "abc"
CurrencyCell == Str(<<"$", "1", ",", "2", "5", "0", ".", "5", "0">>)
ErrorCell == Str(<<"#", "R", "E", "F", "!">>)
TextCell == Str(<<"a", "b", "c">>)

SourceStates ==
    {Full(SummaryGrid(Num(1)), AnnualGrid(AnnualA)),
     Full(SummaryGrid(CurrencyCell), AnnualGrid(AnnualB)),
     Full(SummaryGrid(TextCell), AnnualGrid(AnnualA))}
    \cup {[Full(SummaryGrid(Num(1)), AnnualGrid(AnnualA)) EXCEPT ![t] = Missing] :
             t \in TableNames}
    \cup {[Full(SummaryGrid(TextCell), AnnualGrid(AnnualA)) EXCEPT !["annual"] = Missing]}

AnnualParams ==
    [contributions : {0, 20}, grants : {0, 50, 50000}, grantsBudget : {45},
     revenueTotal : {0, 70, 110}, revenueBudget : {0, 100},
     salaries : {0, 30}, expenseTotal : {30, 70}, expenseBudget : {0, 100},
     reserves : 0..MaxReserve, monthly : (-1)..MaxExpense]

RichSourceStates ==
    SourceStates
    \cup {Full(SummaryGrid(c), AnnualGrid(AnnualA)) : c \in {NaN, ErrorCell, Str(<<>>), Str(<<" ">>)}}
    \cup {Full(SummaryGrid(Num(1)), AnnualGrid(p)) : p \in AnnualParams}
    \cup {Full(NarrowSummaryGrid, AnnualGrid(AnnualA))}
    \cup {[Full(SummaryGrid(Num(1)), AnnualGrid(AnnualA)) EXCEPT !.program = ZeroBudgetProgramGrid]}

----------------------------------------------------------------------------
(* Specifications *)

\* the sources are edited between runs
EditSources ==
    /\ Idle
    /\ runNo < MaxRuns
    /\ sources' \in SourceStates \ {sources}
    /\ UNCHANGED <<files, pc, runNo, input, mem, raised, written, lastDone>>
    /\ UNCHANGED pageVars

InitRest ==
    /\ files = [f \in FileNames |-> Absent]
    /\ pc = "idle"
    /\ runNo = 0
    /\ input = <<>>
    /\ mem = EmptyMem
    /\ raised = <<>>
    /\ written = {}
    /\ lastDone = [valid |-> FALSE, sources |-> <<>>, files |-> <<>>]
    /\ page = "none"
    /\ ppc = "unmounted"
    /\ resp = <<>>
    /\ data = <<>>
    /\ loading = TRUE
    /\ error = NoError

Init ==
    /\ sources \in SourceStates
    /\ InitRest

Next ==
    \/ StartRun
    \/ EditSources
    \/ RunStep
    \/ PageStep

Spec == Init /\ [][Next]_vars

\* one run of the pipeline over a wide range of source tables
RunInit ==
    /\ sources \in RichSourceStates
    /\ InitRest

FirstRun ==
    /\ runNo = 0
    /\ StartRun

RunNext ==
    \/ FirstRun
    \/ RunStep

RunSpec == RunInit /\ [][RunNext]_vars

\* one run of the pipeline over every short cell text in the FY19
\* program_revenue cell of the summary table
CellChars == {"$", ",", ".", "1", "5", " ", "-"}

Cells ==
    {NaN, Num(0), Num(7), Num(-3), CurrencyCell}
    \cup {Str(s) : s \in UNION {[1..k -> CellChars] : k \in 0..MaxCellLen}}

CellInit ==
    /\ sources \in {Full(SummaryGrid(c), AnnualGrid(AnnualA)) : c \in Cells}
    /\ InitRest

CellSpec == CellInit /\ [][RunNext]_vars

\* the pipeline alone: runs and edits of the sources, no page mounted
PipeNext ==
    \/ StartRun
    \/ EditSources
    \/ RunStep

PcValues == {"idle", "done", "failed"} \cup LoadSteps \cup DeriveSteps \cup SaveSteps

\* main() moves on from the statement it is at
Advance ==
    /\ Running
    /\ pc' \in PcValues \ {pc}

\* the interpreter runs the statements of main() one after the other: a
\* run in progress does not stay at one statement forever
FairSpec == Init /\ [][PipeNext]_vars /\ WF_pc(Advance)

\* one run of the pipeline beside one page
PageNext ==
    \/ FirstRun
    \/ RunStep
    \/ PageStep

\* every fetch of the Promise.all has settled, or one has rejected
FetchesSettled ==
    \/ ppc = "fetching" /\ DOMAIN resp = KeySet(PageFiles(page))
    \/ ppc = "setLoading"

\* loadData resumes after its await
Resume ==
    /\ FetchesSettled
    /\ ppc' \in {"unmounted", "fetching", "setLoading", "settled"} \ {ppc}

\* the event loop runs the continuation of a settled promise: loadData does
\* not stay at an await whose promise has settled, nor before setLoading
PageFairSpec == Init /\ [][PageNext]_vars /\ WF_ppc(Resume)

----------------------------------------------------------------------------
(* Properties *)

\* sum of the edge values whose endpoint (targets or sources) is node
EdgeSum(sankey, ends, node) ==
    RSum([i \in 1..Len(sankey.values) |->
             IF ends[i] = node THEN sankey.values[i] ELSE R(0)])

\* what the load statement of table t returns or raises on the current sources
LoadResult(t) ==
    CASE t = "summary" -> load_summary_data
      [] t = "annual" -> load_fy26_annual_data
      [] t = "program" -> load_program_data
      [] t = "cashflow" -> load_monthly_cashflow

\* C1: in every sankey_data produced by calculate_sankey_data the values of
\* the edges into the Organization hub sum to the same amount as the values
\* of the edges out of the hub (payroll_total + operations_total).
HubConservation ==
    mem.sankey_data.ok =>
        EdgeSum(mem.sankey_data.v, mem.sankey_data.v.targets, HubIndex)
            = EdgeSum(mem.sankey_data.v, mem.sankey_data.v.sources, HubIndex)

\* C2: a run ends having written all seven records or none; a run that
\* fails has written nothing and reports exactly one exception, which for a
\* missing source file (the other tables being loadable) is the
\* file-not-found error of that table; a run with a missing file never
\* completes.
AllOrNothing ==
    /\ [](pc = "done" => written = FileNames /\ raised = <<>>)
    /\ [](pc = "failed" => written = {} /\ Len(raised) = 1)
    /\ [](pc = "done" => \A t \in TableNames : input[t] # Missing)
    /\ [][pc # "failed" /\ pc' = "failed" =>
            /\ files' = files
            /\ raised'[1].type = "FileNotFoundError" => input[raised'[1].table] = Missing
            /\ (/\ \E t \in TableNames : sources[t] = Missing
                /\ \A t \in TableNames : sources[t] = Missing \/ LoadResult(t).ok)
               => raised'[1].type = "FileNotFoundError"]_vars

AllOrNothingWitness ==
    /\ pc = "failed"
    /\ input["program"] = Missing
    /\ mem.annual_data.ok
    /\ written = {}
    /\ raised[1].type = "FileNotFoundError"

\* C3: the page never stores a set of records of which some were written by
\* one pipeline run and others by another run.
NoMixedRead ==
    \A k1, k2 \in DOMAIN data :
        data[k1].ok /\ data[k2].ok => data[k1].run = data[k2].run

\* C4: the sankey derivation and the executive-summary derivation are at
\* hand or have been executed only when every one of the four loads of the
\* run has completed successfully, and never after a load has failed.
FanInBarrier ==
    (pc \in DeriveSteps \/ mem.sankey_data.ok \/ mem.executive_summary.ok) =>
        /\ mem.summary_data.ok
        /\ mem.annual_data.ok
        /\ mem.program_data.ok
        /\ mem.cashflow_data.ok
        /\ raised = <<>>

FanInBarrierWitness ==
    /\ pc = "executive"
    /\ mem.sankey_data.ok
    /\ mem.cashflow_data.ok

\* C5: every started run ends as completed or failed, and once an
\* exception has been raised no later load, derivation or write of the run
\* executes: main()'s locals, the output files and the position stay as
\* they are until another run is started.
FailFastTermination ==
    /\ [](Running => <>Ended)
    /\ [][raised # <<>> /\ raised' # <<>> =>
            /\ pc = "failed"
            /\ UNCHANGED <<pc, mem, files, written, raised>>]_vars

FailFastWitness ==
    /\ pc = "failed"
    /\ mem.summary_data.ok
    /\ ~mem.annual_data.ok
    /\ raised # <<>>
    /\ runNo = MaxRuns

\* C6: a run that completes on the same source tables as the latest
\* completed run before it leaves in every output file exactly the document
\* that run left there.
Idempotence ==
    (pc = "done" /\ lastDone.valid /\ lastDone.sources = input) =>
        \A f \in FileNames : files[f].body = lastDone.files[f].body

IdempotenceWitness ==
    /\ pc = "done"
    /\ lastDone.valid
    /\ lastDone.sources = input
    /\ runNo >= 2
    /\ \A f \in FileNames : files[f].run = runNo

\* v is the variance of actual against budgeted, in percent: v * budgeted =
\* (actual - budgeted) * 100, and 0 for a budget of 0
IsVariancePct(v, actual, budgeted) ==
    /\ budgeted.n # 0 =>
            v.n * budgeted.n * actual.d * budgeted.d
                = (actual.n * budgeted.d - budgeted.n * actual.d) * 100 * v.d * budgeted.d
    /\ budgeted.n = 0 => v.n = 0
    /\ (actual = R(110) /\ budgeted = R(100)) => v = R(10)

\* the record main() built as executive_summary
Executive == mem.executive_summary.v

\* the reserves of the FY26 annual table as loaded by the run
Reserves == mem.annual_data.v.reserves

\* C7: the revenue and expense variances of every executive summary are
\* (actual - budgeted) / budgeted * 100 for a budget other than 0 and 0 for a
\* budget of 0 (110 against 100 gives 10), and the statement computing them
\* never raises: the executive step always binds its record.
VarianceGuarded ==
    /\ [](mem.executive_summary.ok =>
            /\ IsVariancePct(Executive.ytd_revenue_variance,
                             Executive.ytd_revenue, Executive.ytd_revenue_budget)
            /\ IsVariancePct(Executive.ytd_expenses_variance,
                             Executive.ytd_expenses, Executive.ytd_expenses_budget))
    /\ [][pc = "executive" /\ pc' # pc =>
            mem'.executive_summary.ok /\ raised' = <<>>]_vars

VarianceWitness ==
    /\ pc = "done"
    /\ Executive.ytd_revenue = R(110)
    /\ Executive.ytd_revenue_budget = R(100)
    /\ Executive.ytd_revenue_variance = R(10)
    /\ Executive.ytd_expenses_budget = R(0)
    /\ Executive.ytd_expenses # R(0)
    /\ Executive.ytd_expenses_variance = R(0)

\* C8: the reserve_health of every executive summary is good exactly when
\* months_in_reserve >= 3, warning exactly when 2 <= months_in_reserve < 3
\* and critical exactly when months_in_reserve < 2.
ReserveHealthTiers ==
    mem.executive_summary.ok =>
        LET m == Executive.months_in_reserve
            h == Executive.reserve_health
        IN  /\ h \in {"good", "warning", "critical"}
            /\ h = "good" <=> m.n >= 3 * m.d
            /\ h = "warning" <=> (2 * m.d <= m.n /\ m.n < 3 * m.d)
            /\ h = "critical" <=> m.n < 2 * m.d

ReserveHealthWitness ==
    /\ pc = "done"
    /\ Executive.months_in_reserve = R(3)
    /\ Executive.reserve_health = "good"

----------------------------------------------------------------------------
(* What a run reports, and the cell the error-handling properties look at *)

\* the entries of a category among what the run reports besides its records:
\* main() prints two fixed progress lines and keeps no list of diagnostics,
\* so the only entries are the exceptions that escaped it
DiagnosticsOf(category) == {i \in 1..Len(raised) : raised[i].type = category}

\* the logical field an exception names: FileNotFoundError carries a path,
\* IndexError an index, ValueError the raw text; none carries a field name
FieldNamed(exc) == IF "field" \in DOMAIN exc THEN exc.field ELSE ""

\* the run in progress or ended read a summary table whose FY19
\* program_revenue cell is cell
FirstCellIs(cell) ==
    /\ pc # "idle"
    /\ input["summary"] # Missing
    /\ <<ProgramRevenueRow, FirstYearCol>> \in DOMAIN input["summary"].cell
    /\ input["summary"].cell[<<ProgramRevenueRow, FirstYearCol>>] = cell

\* the FY19 program_revenue value load_summary_data returned
LoadedFirst == mem.summary_data.v.income_trends.program_revenue[1]

\* C11: a run whose summary table holds the error token #REF! is not
\* aborted by it, the field is 0, and the run's diagnostics hold exactly one
\* SourceDataError entry.
ErrorTokenDiagnosed ==
    /\ FirstCellIs(ErrorCell) => pc # "failed"
    /\ (FirstCellIs(ErrorCell) /\ pc = "done") =>
            /\ LoadedFirst = R(0)
            /\ Cardinality(DiagnosticsOf("SourceDataError")) = 1

\* C12: a cell holding the unparseable text abc does not abort the run; the
\* run reports a NumericParseError carrying the raw text and the logical
\* field program_revenue.
NumericParseContained ==
    (FirstCellIs(TextCell) /\ pc \notin {"idle", "load_summary"}) =>
        /\ pc # "failed"
        /\ \E i \in DiagnosticsOf("NumericParseError") :
                /\ raised[i].what = TextCell.s
                /\ FieldNamed(raised[i]) = "program_revenue"

\* the text without currency symbols and thousands separators
Kept(s) == SelectSeq(s, LAMBDA c : c \notin {"$", ","})

\* positions of k that are not blank
Inked(k) == {i \in 1..Len(k) : k[i] # " "}

\* k is blanks around one optionally negative decimal numeral
IsNumeral(k) ==
    /\ Inked(k) # {}
    /\ \A i, j \in Inked(k) : \A m \in i..j : m \in Inked(k)
    /\ \A i \in Inked(k) :
            \/ IsDigit(k[i])
            \/ k[i] = "."
            \/ k[i] = "-" /\ \A j \in Inked(k) : i <= j
    /\ Cardinality({i \in 1..Len(k) : k[i] = "."}) <= 1
    /\ \E i \in 1..Len(k) : IsDigit(k[i])

\* the digits of k weighted by their decimal place, from position i on
RECURSIVE PlaceSum(_, _)
PlaceSum(ds, i) ==
    IF i > Len(ds) THEN 0
    ELSE DigitVal(ds[i]) * Pow10(Len(ds) - i) + PlaceSum(ds, i + 1)

\* the numeral k denotes v: v * 10^(digits after the point) = +/- its digits
Denotes(k, v) ==
    LET frac == Cardinality({i \in 1..Len(k) :
                    IsDigit(k[i]) /\ \E j \in 1..(i - 1) : k[j] = "."})
        sign == IF \E i \in 1..Len(k) : k[i] = "-" THEN -1 ELSE 1
    IN  v.n * Pow10(frac) = sign * PlaceSum(SelectSeq(k, IsDigit), 1) * v.d

\* the FY19 program_revenue cell of the summary table the run read
FirstCell == input["summary"].cell[<<ProgramRevenueRow, FirstYearCol>>]

\* C13: once load_summary_data has run on a table whose cell is absent, a
\* number, a text that is blank once currency symbols and thousands
\* separators are removed, or a text that is then a decimal numeral, it has
\* returned 0, that number, 0, and the number the numeral denotes.
NormalizerCases ==
    (pc \notin {"idle", "load_summary"} /\ input["summary"] # Missing) =>
        /\ FirstCell = NaN => mem.summary_data.ok /\ LoadedFirst = R(0)
        /\ FirstCell.k = "num" => mem.summary_data.ok /\ LoadedFirst = R(FirstCell.v)
        /\ (FirstCell.k = "str" /\ Inked(Kept(FirstCell.s)) = {}) =>
                mem.summary_data.ok /\ LoadedFirst = R(0)
        /\ (FirstCell.k = "str" /\ IsNumeral(Kept(FirstCell.s))) =>
                mem.summary_data.ok /\ Denotes(Kept(FirstCell.s), LoadedFirst)

NormalizerWitness ==
    /\ pc = "done"
    /\ FirstCellIs(CurrencyCell)
    /\ LoadedFirst = Rat(2501, 2)
    /\ files["historical_trends"].body[1].income_trends.program_revenue[1] = Rat(2501, 2)

\* a coordinate of the summary mapping lies outside the grid df
OutOfRange(df) == df.rows <= IndividualDonorsRow \/ df.cols <= LastYearCol

\* C14: once load_summary_data has run on a summary table that lacks a
\* mapped row or column, the run has failed without binding any value, and
\* the error it reports names the out-of-range coordinate and the logical
\* field.
FieldMappingNamed ==
    (/\ pc \notin {"idle", "load_summary"}
     /\ input["summary"] # Missing
     /\ OutOfRange(input["summary"])) =>
        /\ pc = "failed"
        /\ ~mem.summary_data.ok
        /\ \/ raised[1].what[1] >= input["summary"].rows
           \/ raised[1].what[2] >= input["summary"].cols
        /\ FieldNamed(raised[1]) \in {"program_revenue", "individual_donors"}

\* the sum of the values of part ("actual" or "budgeted") over the
\* categories of record other than total
CategorySum(record, keys, part) ==
    RSum([i \in 1..(Len(keys) - 1) |-> record[keys[i]][part]])

\* C15: in every revenue_data and expense_data written, total.actual is
\* the sum of actual over the other categories and total.budgeted the sum
\* of their budgeted values.
TotalsConsistent ==
    /\ files["revenue_data"].present =>
            LET revenue == files["revenue_data"].body[1]
            IN  /\ revenue["total"].actual = CategorySum(revenue, RevenueKeys, "actual")
                /\ revenue["total"].budgeted = CategorySum(revenue, RevenueKeys, "budgeted")
    /\ files["expense_data"].present =>
            LET expenses == files["expense_data"].body[1]
            IN  /\ expenses["total"].actual = CategorySum(expenses, ExpenseKeys, "actual")
                /\ expenses["total"].budgeted = CategorySum(expenses, ExpenseKeys, "budgeted")

\* the sankey record written by the run
Sankey == files["sankey_data"].body[1]

\* the positions of the edges of sankey from the node labelled from to the
\* node labelled to
Edges(sankey, from, to) ==
    {j \in 1..Len(sankey.values) :
        /\ sankey.labels[sankey.sources[j] + 1] = from
        /\ sankey.labels[sankey.targets[j] + 1] = to}

\* the value of the one edge of sankey between the two nodes
EdgeValue(sankey, from, to) == sankey.values[CHOOSE j \in Edges(sankey, from, to) : TRUE]

\* C16: in every sankey_data written, sources, targets and values have the
\* same length, every entry of sources and targets is an index into labels,
\* and no two positions describe the same edge.
SankeyAligned ==
    files["sankey_data"].present =>
        /\ Len(Sankey.sources) = Len(Sankey.values)
        /\ Len(Sankey.targets) = Len(Sankey.values)
        /\ \A j \in 1..Len(Sankey.values) :
                /\ Sankey.sources[j] \in 0..(Len(Sankey.labels) - 1)
                /\ Sankey.targets[j] \in 0..(Len(Sankey.labels) - 1)
        /\ \A i, j \in 1..Len(Sankey.values) :
                (Sankey.sources[i] = Sankey.sources[j] /\ Sankey.targets[i] = Sankey.targets[j])
                    => i = j

SankeyAlignedWitness ==
    /\ pc = "done"
    /\ files["sankey_data"].present
    /\ Len(Sankey.values) = 8
    /\ Len(Sankey.labels) = 9

\* the revenue categories in their declared order, and the node labels
\* that name them
DeclaredOrder == <<"contributions", "grants", "earned_revenue", "fundraising_events",
                   "sponsorships", "other">>
DeclaredLabels == <<"Contributions", "Grants", "Earned Revenue", "Events",
                    "Sponsorships", "Other">>

\* C17: in every sankey_data written, node i - 1 is labelled with the i-th
\* revenue category of the declared order and has exactly one edge, which
\* leads to the hub and carries that category's actual value of the
\* revenue_data of the run.
RevenueEdges ==
    files["sankey_data"].present =>
        \A i \in 1..Len(DeclaredOrder) :
            /\ Sankey.labels[i] = DeclaredLabels[i]
            /\ Cardinality({j \in 1..Len(Sankey.values) : Sankey.sources[j] = i - 1}) = 1
            /\ Cardinality(Edges(Sankey, DeclaredLabels[i], "Organization")) = 1
            /\ EdgeValue(Sankey, DeclaredLabels[i], "Organization")
                    = mem.annual_data.v.revenue[DeclaredOrder[i]].actual

RevenueEdgesWitness ==
    /\ pc = "done"
    /\ files["revenue_data"].body[1]["grants"].actual = R(50000)
    /\ files["revenue_data"].body[1]["grants"].budgeted = R(45)
    /\ EdgeValue(Sankey, "Grants", "Organization") = R(50000)

\* C18: in every sankey_data written, the hub-to-Payroll edge carries
\* salaries_wages + payroll_taxes + benefits (actual) and the
\* hub-to-Operations edge carries what is left of expenses.total.actual, so
\* that the two edges add up to expenses.total.actual.
OutgoingEdges ==
    files["sankey_data"].present =>
        LET expenses == mem.annual_data.v.expenses
        IN  /\ Cardinality(Edges(Sankey, "Organization", "Payroll")) = 1
            /\ Cardinality(Edges(Sankey, "Organization", "Operations")) = 1
            /\ EdgeValue(Sankey, "Organization", "Payroll")
                    = RAdd(RAdd(expenses["salaries_wages"].actual,
                                expenses["payroll_taxes"].actual),
                           expenses["benefits"].actual)
            /\ RAdd(EdgeValue(Sankey, "Organization", "Payroll"),
                    EdgeValue(Sankey, "Organization", "Operations"))
                    = expenses["total"].actual

OutgoingEdgesWitness ==
    /\ pc = "done"
    /\ mem.annual_data.v.expenses["total"].actual = R(70)
    /\ EdgeValue(Sankey, "Organization", "Payroll") = R(40)
    /\ EdgeValue(Sankey, "Organization", "Operations") = R(30)

\* C19: a run whose payroll categories add up to more than
\* expenses.total.actual completes, writes the negative difference as the
\* Operations edge, and its diagnostics hold one NegativeFlowValueWarning.
NegativeFlowWarned ==
    LET expenses == mem.annual_data.v.expenses
        payroll == RAdd(RAdd(expenses["salaries_wages"].actual,
                             expenses["payroll_taxes"].actual),
                        expenses["benefits"].actual)
    IN  (mem.annual_data.ok /\ RGt(payroll, expenses["total"].actual)) =>
            /\ pc = "failed" => raised[1].table \in {"program", "cashflow"}
            /\ pc = "done" =>
                    /\ RLt(EdgeValue(Sankey, "Organization", "Operations"), R(0))
                    /\ RAdd(EdgeValue(Sankey, "Organization", "Operations"), payroll)
                            = expenses["total"].actual
                    /\ Cardinality(DiagnosticsOf("NegativeFlowValueWarning")) = 1

\* C20: the error a failed run reports names the source table and the
\* logical field that triggered the failure.
FailureNamesTableAndField ==
    pc = "failed" =>
        /\ raised[1].table \in TableNames
        /\ FieldNamed(raised[1]) # ""

----------------------------------------------------------------------------
(* Categories without source values *)

\* both the budgeted and the actual cell of the category on row r of the
\* annual table the run read are empty
BothAbsent(r) ==
    /\ iloc(input["annual"], r, BudgetCol) = Ok(NaN)
    /\ iloc(input["annual"], r, ActualCol) = Ok(NaN)

\* C21: after a completed run, a revenue or expense category whose actual
\* and budgeted cells are both absent from the annual table is not in the
\* output, and the run's diagnostics record the drop.
AbsentCategoryDropped ==
    pc = "done" =>
        /\ \A k \in KeySet(RevenueKeys) :
              BothAbsent(FirstRevenueRow + KeyIndex(RevenueKeys, k) - 1) =>
                  /\ k \notin DOMAIN files["revenue_data"].body[1]
                  /\ DiagnosticsOf("MissingCategory") # {}
        /\ \A k \in KeySet(ExpenseKeys) :
              BothAbsent(FirstExpenseRow + KeyIndex(ExpenseKeys, k) - 1) =>
                  /\ k \notin DOMAIN files["expense_data"].body[1]
                  /\ DiagnosticsOf("MissingCategory") # {}

----------------------------------------------------------------------------
(* What a page renders *)

\* a component without the `if (error)` early return
ViewWithoutErrorBranch ==
    IF page = "none" THEN [kind |-> "none", message |-> "", reads |-> {}]
    ELSE IF loading THEN [kind |-> "loading", message |-> "", reads |-> {}]
    ELSE [kind |-> "body", message |-> "", reads |-> KeySet(PageKeys(page))]

\* the element the component returns: the loading line, the error line with
\* the message, or the body, which destructures data and reads its records
View ==
    IF page = "none" THEN [kind |-> "none", message |-> "", reads |-> {}]
    ELSE IF loading THEN [kind |-> "loading", message |-> "", reads |-> {}]
    ELSE IF error.set THEN [kind |-> "error", message |-> error.message, reads |-> {}]
    ELSE [kind |-> "body", message |-> "", reads |-> KeySet(PageKeys(page))]

\* loadData did not get one of the page's records: a fetch rejected, or a
\* response body did not parse as JSON
RecordAbsent ==
    /\ ppc \in {"setLoading", "settled"}
    /\ \/ DOMAIN resp # KeySet(PageFiles(page))
       \/ \E f \in DOMAIN resp : ~JsonOk(resp[f])

\* C22: a page that did not get one of its records never renders its body:
\* it shows the loading line until loadData ends and then the error line,
\* and the render reads no record of the data state.
AbsentRecordShowsError ==
    RecordAbsent =>
        /\ View.kind = IF ppc = "settled" THEN "error" ELSE "loading"
        /\ View.reads = {}
        /\ data = NullData(page)

AbsentRecordWitness ==
    /\ ppc = "settled"
    /\ DOMAIN resp = KeySet(PageFiles(page))
    /\ \E f \in DOMAIN resp : ~resp[f].present
    /\ \E f \in DOMAIN resp : resp[f].present
    /\ View.kind = "error"

----------------------------------------------------------------------------
(* Series of historical_trends and cashflow_data *)

\* the value the run read from row r, column c of the summary table
SummaryCell(r, c) == Field(input["summary"], r, c).v

\* the series of a record: its fields other than the period list
SeriesOf(record, periods) == {record[k] : k \in DOMAIN record \ {periods}}

\* C23: in the historical_trends a run wrote, years is FY19..FY29 and each
\* series has one entry per year, entry i (from 0) being the cell of source
\* column 2 + i; in the cashflow_data it wrote, every record lists the twelve
\* months Sep..Aug and each of its series has one entry per month.
SeriesAligned ==
    pc = "done" =>
        /\ LET trends == files["historical_trends"].body[1].income_trends
           IN  /\ trends.years = years
               /\ Len(years) = 11
               /\ \A s \in SeriesOf(trends, "years") : Len(s) = Len(trends.years)
               /\ \A i \in 0..(Len(years) - 1) :
                     /\ trends.program_revenue[i + 1] = SummaryCell(ProgramRevenueRow, 2 + i)
                     /\ trends.individual_donors[i + 1] = SummaryCell(IndividualDonorsRow, 2 + i)
        /\ LET cashflow == files["cashflow_data"].body[1]
           IN  \A r \in DOMAIN cashflow :
                  /\ cashflow[r].months = months
                  /\ Len(months) = 12
                  /\ \A s \in SeriesOf(cashflow[r], "months") : Len(s) = Len(cashflow[r].months)

SeriesAlignedWitness ==
    /\ pc = "done"
    /\ Len(files["historical_trends"].body[1].income_trends.individual_donors) = 11
    /\ files["historical_trends"].body[1].income_trends.program_revenue[11] = R(29)
    /\ Len(files["cashflow_data"].body[1].net_income_by_month.reserves) = 12

----------------------------------------------------------------------------
(* Goal achievement of a program *)

\* the stored ratio shown as it is
percentOfGoalUnscaled(program) == program.percent_of_goal

\* ProgramsPage: program.percent_of_goal ? program.percent_of_goal * 100 : 0
percentOfGoal(program) ==
    IF program.percent_of_goal # R(0) THEN RMul(program.percent_of_goal, R(100)) ELSE R(0)

Programs == files["program_data"].body[1]

----------------------------------------------------------------------------
(* The loading state of a page *)

AllStored == \A k \in DOMAIN data : data[k].ok

\* C25: once the fetches a page started on mount have settled, loading
\* becomes false with error set or every record stored, and loading never
\* becomes true again.
LoadingEnds ==
    /\ FetchesSettled ~> (~loading /\ (error.set \/ AllStored))
    /\ [][~loading => ~loading']_vars

LoadingEndsWitness ==
    /\ ppc = "settled"
    /\ ~loading
    /\ ~error.set
    /\ AllStored
    /\ page = "CashFlowPage"


\* C26: in every state of a mounted page, loading = false and error = null
\* together imply that every record of the data state is non-null, so the
\* body is rendered only from stored records.
BodyHasRecords ==
    /\ (page # "none" /\ ~loading /\ ~error.set) => \A k \in KeySet(PageKeys(page)) : data[k] # None
    /\ View.kind = "body" => \A k \in View.reads : data[k].ok

BodyHasRecordsWitness ==
    /\ View.kind = "body"
    /\ page = "ExpensePage"
    /\ data["expenses"].ok
    /\ data["trends"].ok



\* loadData leaves its try block, by its last statements or into the catch
LeavesTry == ppc = "fetching" /\ ppc' = "setLoading"

\* C27: when loadData leaves its try block after a failed fetch or parse,
\* data keeps its all-null value and error becomes the failure message; when
\* everything succeeded, all records are stored in that one update and error
\* stays null; no other step of a mounted page changes data or error.
AllOrNoRecords ==
    [][page # "none" =>
        /\ (LeavesTry /\ RecordAbsent') =>
              /\ data' = NullData(page)
              /\ error'.set
              /\ error'.message \in {"Failed to fetch", "Unexpected token"}
        /\ (LeavesTry /\ ~RecordAbsent') =>
              /\ data = NullData(page)
              /\ \A k \in KeySet(PageKeys(page)) : data'[k].ok
              /\ error' = NoError
        /\ ~LeavesTry => (data' = data /\ error' = error)]_vars

AllOrNoRecordsWitness ==
    /\ ppc = "settled"
    /\ error.set
    /\ data = NullData(page)
    /\ \E f \in DOMAIN resp : JsonOk(resp[f])
    /\ \E f \in DOMAIN resp : ~JsonOk(resp[f])

----------------------------------------------------------------------------
(* Variance percentages computed by the pages *)

\* a JavaScript number: finite, or what a division by 0 gives
JsNumber(x) == [kind |-> "number", v |-> x]

\* x / y * 100 in JavaScript: Infinity, -Infinity or NaN for y = 0
JsPercent(x, y) ==
    IF y # R(0) THEN JsNumber(RMul(RDiv(x, y), R(100)))
    ELSE IF RGt(x, R(0)) THEN [kind |-> "Infinity", v |-> R(1)]
    ELSE IF RLt(x, R(0)) THEN [kind |-> "Infinity", v |-> R(-1)]
    ELSE [kind |-> "NaN", v |-> R(0)]

\* RevenuePage, ExpensePage: ((actual - budgeted) / budgeted) * 100
calculateVariance(actual, budgeted) == JsPercent(RSub(actual, budgeted), budgeted)

\* ProgramsPage: program.budgeted ? (...) : 0
programVariance(program) ==
    IF program.budgeted # R(0)
    THEN JsPercent(RSub(program.actual, program.budgeted), program.budgeted)
    ELSE JsNumber(R(0))

\* C28: for every category of the revenue_data and expense_data and every
\* program of the program_data a run wrote, the variance the page computes
\* equals the pipeline's variance_pct of the same actual and budgeted, which
\* is 0 when budgeted is 0.
PageVarianceGuarded ==
    pc = "done" =>
        /\ \A f \in {"revenue_data", "expense_data"} :
              \A k \in DOMAIN files[f].body[1] :
                  LET c == files[f].body[1][k]
                  IN  calculateVariance(c.actual, c.budgeted)
                          = JsNumber(variance_pct(c.actual, c.budgeted))
        /\ \A k \in DOMAIN Programs :
              programVariance(Programs[k])
                  = JsNumber(variance_pct(Programs[k].actual, Programs[k].budgeted))

----------------------------------------------------------------------------
(* Payroll and operations totals of ExpensePage *)

\* ExpensePage: payrollTotal
payrollTotal(expenses) ==
    RAdd(RAdd(expenses["salaries_wages"].actual, expenses["payroll_taxes"].actual),
         expenses["benefits"].actual)

\* the difference taken against the budgeted total
operationsTotalBudgeted(expenses) ==
    RSub(expenses["total"].budgeted, payrollTotal(expenses))

\* ExpensePage: operationsTotal
operationsTotal(expenses) ==
    RSub(expenses["total"].actual, payrollTotal(expenses))

Expenses == files["expense_data"].body[1]

\* expense_data and sankey_data are both on disk, written by the same run
SameRunExpenseAndSankey ==
    /\ JsonOk(files["expense_data"])
    /\ JsonOk(files["sankey_data"])
    /\ files["expense_data"].run = files["sankey_data"].run

\* C29: when expense_data and sankey_data were written by the same run, the
\* payrollTotal and operationsTotal ExpensePage computes from expense_data
\* are the values of the Organization-to-Payroll and
\* Organization-to-Operations edges of sankey_data.
PageTotalsMatchSankey ==
    SameRunExpenseAndSankey =>
        /\ payrollTotal(Expenses) = EdgeValue(Sankey, "Organization", "Payroll")
        /\ operationsTotal(Expenses) = EdgeValue(Sankey, "Organization", "Operations")

PageTotalsWitness ==
    /\ SameRunExpenseAndSankey
    /\ files["sankey_data"].run = 2
    /\ payrollTotal(Expenses) = R(40)
    /\ operationsTotal(Expenses) = R(20)
    /\ EdgeValue(Sankey, "Organization", "Operations") = R(20)

----------------------------------------------------------------------------
(* Reserve health badge and 3 month target of CashFlowPage *)

\* CashFlowPage: executive.current_reserves >= executive.reserve_targets.three_months
threeMonthTargetMet(executive) ==
    RGe(executive.current_reserves, executive.reserve_targets.three_months)

====
